---- MODULE Spec2Model ----
(***************************************************************************)
(* A model of the yep archive subsystem of yoyoengine (src/yep/yep.c):     *)
(* the directory walker and pack list, the two-phase archive writer, the   *)
(* header scan and extraction of the reader, and the process-wide          *)
(* open-archive cache.                                                     *)
(*                                                                         *)
(* A file on disk is the log of the writes made to it: a region read       *)
(* back is the datum of the latest write that touches it when that write   *)
(* covers exactly the region, and garbage when the latest write covers it  *)
(* only in part.  Offsets and lengths are the byte values the code         *)
(* computes, so the layout of the header table and of the payloads is      *)
(* decided by the arithmetic of the writer and of the reader.              *)
(***************************************************************************)
EXTENDS Integers, Sequences, FiniteSets, TLC

(***************************************************************************)
(* Bounds of the model.                                                    *)
(***************************************************************************)
\* pack calls made by one process
MaxPackCalls == 2
\* FILE objects one process may hold open at once (fopen fails beyond it)
MaxOpenFiles == 2

(***************************************************************************)
(* Program constants.                                                      *)
(***************************************************************************)
\* yep.h is not among the sources: the values are the format's, as documented
YEP_CURRENT_FORMAT_VERSION == 1
YEP_HEADER_SIZE_BYTES == 78
YEP_COMPRESSION_NONE == 0
YEP_COMPRESSION_ZLIB == 1
YEP_DATATYPE_MISC == 0
\* the 3 bytes of version and entry count that precede the header table
HeaderStart == 3
\* char name[64]; fread/fwrite of 64 bytes
NameSlot == 64
\* offset, size, compression type, uncompressed size, data type: 4+4+1+4+1
FieldBytes == 14
\* data_size > 256 selects zlib
CompressThreshold == 256

NoPath == ""

(***************************************************************************)
(* Data: what a region of a file, or a buffer in memory, holds.            *)
(***************************************************************************)
Datum(t, s, v) == [t |-> t, s |-> s, v |-> v]
Empty == Datum("empty", "", <<>>)
Eof == Datum("eof", "", <<>>)
Garbage == Datum("garbage", "", <<>>)
NullResult == Datum("null", "", <<>>)
NoResult == Datum("none", "", <<>>)
VersionDatum(n) == Datum("ver", "", <<n>>)
CountDatum(n) == Datum("cnt", "", <<n>>)
NameDatum(s) == Datum("name", s, <<>>)
FieldsDatum(offset, size, ctype, usize, dtype) ==
    Datum("fields", "", <<offset, size, ctype, usize, dtype>>)
\* the bytes of the source file at fullpath
RawDatum(fullpath) == Datum("raw", fullpath, <<>>)
\* the deflate stream of the bytes of the source file at fullpath
ZDatum(fullpath) == Datum("z", fullpath, <<>>)

Max(S) == CHOOSE m \in S : \A x \in S : x <= m

(***************************************************************************)
(* The source trees that are packed.  A directory lists its entries in     *)
(* readdir order; a regular file has a size, the length of its deflate     *)
(* stream and whether fopen(.., "rb") succeeds on it.                      *)
(***************************************************************************)
\* snprintf(full_path, .., "%s/%s", directory_path, entry->d_name)
JoinPath(dir, d_name) == dir \o "/" \o d_name

\* file names of 63 and of 64 characters
Name63 == "n2345678901234567890123456789012345678901234567890123456789.txt"
Name64 == "n23456789012345678901234567890123456789012345678901234567890.txt"

DirNode(path, ents) ==
    [path |-> path, kind |-> "dir", ents |-> ents, size |-> 0, zsize |-> 0, readable |-> TRUE]
RegNode(path, size, zsize, readable) ==
    [path |-> path, kind |-> "reg", ents |-> <<>>, size |-> size, zsize |-> zsize,
     readable |-> readable]
OtherNode(path) ==
    [path |-> path, kind |-> "other", ents |-> <<>>, size |-> 0, zsize |-> 0, readable |-> TRUE]

FsNodes ==
    { DirNode("resA", <<".", "..", "a.txt", "big.bin", "sub", "sock">>),
      RegNode("resA/a.txt", 10, 0, TRUE),
      RegNode("resA/big.bin", 1000, 20, TRUE),
      OtherNode("resA/sock"),
      DirNode("resA/sub", <<".", "..", "c.txt">>),
      RegNode("resA/sub/c.txt", 256, 0, TRUE),
      DirNode("resB", <<".", "..", "a.txt", Name64, Name63>>),
      RegNode("resB/a.txt", 257, 268, TRUE),
      RegNode(JoinPath("resB", Name63), 0, 0, TRUE),
      RegNode(JoinPath("resB", Name64), 5, 0, TRUE),
      DirNode("resC", <<".", "..", "locked.bin">>),
      DirNode("resD", <<".", "..">>),
      RegNode("resC/locked.bin", 400, 50, FALSE) }

SourceDirs == {"resA", "resB", "resC", "resD"}
Exists(path) == \E n \in FsNodes : n.path = path
Node(path) == CHOOSE n \in FsNodes : n.path = path

(***************************************************************************)
(* Files.                                                                  *)
(***************************************************************************)
Write(off, len, data) == [off |-> off, len |-> len, data |-> data]

Overlaps(w, off, len) ==
    len > 0 /\ w.len > 0 /\ w.off < off + len /\ off < w.off + w.len

\* fseek(f, off, SEEK_SET); fread(buf, 1, len, f) on a file with this log
ReadAt(log, off, len) ==
    IF len = 0 THEN Empty
    ELSE LET hit == {i \in 1..Len(log) : Overlaps(log[i], off, len)}
         IN  IF hit = {} THEN Eof
             ELSE LET w == log[Max(hit)]
                  IN  IF w.off = off /\ w.len = len THEN w.data ELSE Garbage

FileSize(log) ==
    LET ends == {log[i].off + log[i].len : i \in {j \in 1..Len(log) : log[j].len > 0}}
    IN  IF ends = {} THEN 0 ELSE Max(ends)

(***************************************************************************)
(* The pack list: head is the linked list from its head, entry_count the   *)
(* counter kept beside it.                                                 *)
(***************************************************************************)
HeaderNode(name, fullpath) == [name |-> name, fullpath |-> fullpath]
PackList(head, entry_count) == [head |-> head, entry_count |-> entry_count]

\* full_path + strlen(root_path) + 1, kept beside the path as the walk descends
RelativePath(rel_dir, d_name) ==
    IF rel_dir = "" THEN d_name ELSE JoinPath(rel_dir, d_name)

\* the length test without the terminator byte: a name of 64 characters passes
NameTooLong_NoTerminator(relative_path) == Len(relative_path) > NameSlot

\* strlen(relative_path) + 1 > 64
NameTooLong(relative_path) == Len(relative_path) + 1 > NameSlot

\* the S_ISREG branch: reject an over-long name, else prepend a node
AddRegular(pl, full_path, relative_path) ==
    IF NameTooLong(relative_path) THEN pl
    ELSE PackList(<<HeaderNode(relative_path, full_path)>> \o pl.head, pl.entry_count + 1)

RECURSIVE WalkEntries(_, _, _, _)
\* the readdir loop of _ye_walk_directory over directory_path, from entry i on
WalkEntries(directory_path, rel_dir, i, pl) ==
    LET ents == Node(directory_path).ents IN
    IF i > Len(ents) THEN pl
    ELSE LET d_name == ents[i]
             full_path == JoinPath(directory_path, d_name)
             pseudo == d_name \in {".", ".."}
         IN  IF ~pseudo /\ ~Exists(full_path)
             THEN WalkEntries(directory_path, rel_dir, i + 1, pl)
             ELSE IF ~pseudo /\ Node(full_path).kind = "reg"
             THEN WalkEntries(directory_path, rel_dir, i + 1,
                              AddRegular(pl, full_path, RelativePath(rel_dir, d_name)))
             ELSE IF ~pseudo /\ Node(full_path).kind = "dir"
             THEN WalkEntries(directory_path, rel_dir, i + 1,
                              WalkEntries(full_path, RelativePath(rel_dir, d_name), 1, pl))
             ELSE WalkEntries(directory_path, rel_dir, i + 1, pl)

\* _ye_walk_directory(root_path, root_path); opendir fails on a missing directory
_ye_walk_directory(root_path, pl) ==
    IF Exists(root_path) /\ Node(root_path).kind = "dir"
    THEN WalkEntries(root_path, "", 1, pl)
    ELSE pl

(***************************************************************************)
(* The codec.  deflate of a source file's bytes yields its stream, of      *)
(* zsize bytes; inflate yields the bytes back, and decompress_data fails   *)
(* when its input is no deflate stream or the stream does not yield        *)
(* exactly output_size bytes.                                              *)
(***************************************************************************)
\* the buffer compress_data allocates: input_size + input_size / 10 + 12
CompressBufferSize(input_size) == input_size + (input_size \div 10) + 12

\* compress_data: [ok, data, size]; deflate(Z_FINISH) must end in the buffer
compress_data(input, input_size) ==
    IF input.t = "raw" /\ Node(input.s).zsize <= CompressBufferSize(input_size)
    THEN [ok |-> TRUE, data |-> ZDatum(input.s), size |-> Node(input.s).zsize]
    ELSE [ok |-> FALSE, data |-> Garbage, size |-> 0]

\* decompress_data: [ok, data]
decompress_data(input, input_size, output_size) ==
    IF input.t = "z" /\ input_size = Node(input.s).zsize /\ output_size = Node(input.s).size
    THEN [ok |-> TRUE, data |-> RawDatum(input.s)]
    ELSE [ok |-> FALSE, data |-> Garbage]

\* get_file_size and read_file_data on an opened source file
FileData(fullpath) ==
    IF Node(fullpath).size = 0 THEN Empty ELSE RawDatum(fullpath)

(***************************************************************************)
(* The archive writer.                                                     *)
(***************************************************************************)
\* the bytes one header occupies on disk: what the writer's fwrite calls and
\* the reader's fread calls add up to (64 + 4 + 4 + 1 + 4 + 1)
RecordBytes == NameSlot + FieldBytes

\* write_pack_file: data_start = 3 + entry_count * YEP_HEADER_SIZE_BYTES
DataStart(entry_count) == HeaderStart + (entry_count * YEP_HEADER_SIZE_BYTES)

\* update_header: header_start + entry_index * YEP_HEADER_SIZE_BYTES + 64
HeaderOffset(entry_index) == HeaderStart + (entry_index * YEP_HEADER_SIZE_BYTES) + NameSlot

\* the threshold test written with >= : a file of exactly 256 bytes is deflated
CompressionType_AtThreshold(data_size) ==
    IF data_size >= CompressThreshold THEN YEP_COMPRESSION_ZLIB ELSE YEP_COMPRESSION_NONE

\* write_pack_file: zlib when data_size > 256, else none
CompressionType(data_size) ==
    IF data_size > CompressThreshold THEN YEP_COMPRESSION_ZLIB ELSE YEP_COMPRESSION_NONE

RECURSIVE WriteHeaders(_, _, _)
\* yep_pack_directory, the header loop: a name slot and zeroed fields per node,
\* written one after the other at the file position
WriteHeaders(head, cursor, log) ==
    IF head = <<>> THEN log
    ELSE WriteHeaders(Tail(head), cursor + RecordBytes,
             log \o << Write(cursor, NameSlot, NameDatum(head[1].name)),
                       Write(cursor + NameSlot, FieldBytes, FieldsDatum(0, 0, 0, 0, 0)) >>)

\* yep_pack_directory, from fopen(output_name, "wb") to the header loop's end
WriteSkeleton(version_number, pl) ==
    WriteHeaders(pl.head, HeaderStart,
                 << Write(0, 1, VersionDatum(version_number)),
                    Write(1, 2, CountDatum(pl.entry_count)) >>)

\* write_data_to_pack: fseek to offset, fwrite size bytes
write_data_to_pack(offset, data, size) == Write(offset, size, data)

\* update_header given the raw size where the stored size belongs
update_header_RawSize(entry_index, offset, size, ctype, uncompressed_size, dtype) ==
    Write(HeaderStart + (entry_index * YEP_HEADER_SIZE_BYTES) + NameSlot, FieldBytes,
          FieldsDatum(offset, uncompressed_size, ctype, uncompressed_size, dtype))

\* update_header: the five fields of record entry_index, the name left alone
update_header(entry_index, offset, size, ctype, uncompressed_size, dtype) ==
    Write(HeaderOffset(entry_index), FieldBytes,
          FieldsDatum(offset, size, ctype, uncompressed_size, dtype))

\* one turn of write_pack_file's loop: the payload at data_end, then update_header
WriteEntry(node, current_entry, data_end, log) ==
    LET uncompressed_size == Node(node.fullpath).size
        compression_type == CompressionType(uncompressed_size)
        z == compress_data(FileData(node.fullpath), uncompressed_size)
        data == IF compression_type = YEP_COMPRESSION_ZLIB
                THEN z.data ELSE FileData(node.fullpath)
        data_size == IF compression_type = YEP_COMPRESSION_ZLIB
                     THEN z.size ELSE uncompressed_size
    IN  [log |-> log \o << write_data_to_pack(data_end, data, data_size),
                           update_header(current_entry, data_end, data_size,
                                         compression_type, uncompressed_size,
                                         YEP_DATATYPE_MISC) >>,
         data_end |-> data_end + data_size]

RECURSIVE WriteEntries(_, _, _, _)
\* write_pack_file's loop from node itr on: [log, ok]; ok is FALSE when a source
\* file cannot be opened, where the code calls exit(1)
WriteEntries(itr, current_entry, data_end, log) ==
    IF itr = <<>> THEN [log |-> log, ok |-> TRUE]
    ELSE IF ~(Exists(itr[1].fullpath) /\ Node(itr[1].fullpath).readable)
    THEN [log |-> log, ok |-> FALSE]
    ELSE LET w == WriteEntry(itr[1], current_entry, data_end, log)
         IN  WriteEntries(Tail(itr), current_entry + 1, w.data_end, w.log)

\* write_pack_file
write_pack_file(pl, log) == WriteEntries(pl.head, 0, DataStart(pl.entry_count), log)

\* the file yep_pack_directory leaves for a pack list: [log, ok]
WriteArchive(version_number, pl) == write_pack_file(pl, WriteSkeleton(version_number, pl))

(***************************************************************************)
(* The archives on disk.  a.yep does not exist at first; base.yep was      *)
(* packed from resA by an earlier run; old.yep was written by a build of   *)
(* another format version; none.yep never exists.                          *)
(***************************************************************************)
ArchivePaths == {"a.yep", "base.yep", "old.yep", "none.yep"}
PackOutputs == {"a.yep"}
OtherFormatVersion == YEP_CURRENT_FORMAT_VERSION + 1

DiskFile(exists, log, complete) == [exists |-> exists, log |-> log, complete |-> complete]
NoFile == DiskFile(FALSE, <<>>, FALSE)

InitDisk ==
    [p \in ArchivePaths |->
        IF p = "base.yep"
        THEN DiskFile(TRUE, WriteArchive(YEP_CURRENT_FORMAT_VERSION,
                                _ye_walk_directory("resA", PackList(<<>>, 0))).log, TRUE)
        ELSE IF p = "old.yep"
        THEN DiskFile(TRUE, WriteArchive(OtherFormatVersion,
                                _ye_walk_directory("resA", PackList(<<>>, 0))).log, TRUE)
        ELSE NoFile]

(***************************************************************************)
(* The state of the process.                                               *)
(***************************************************************************)
VARIABLES
    yep_file_path,        \* the cached path string; NoPath is NULL
    path_freed,           \* yep_file_path points at freed memory
    yep_file,             \* the path the cached FILE is open on; NoPath is NULL
    file_entry_count,
    file_version_number,
    open_files,           \* FILE objects fopen returned and fclose has not taken
    yep_pack_list,        \* [head, entry_count]
    nodes_freed,          \* the nodes of yep_pack_list.head have been freed
    disk,                 \* the archives on disk
    packed,               \* history: the directory and pack list each archive was written from
    pack_calls,           \* history: the pack calls made so far
    proc,                 \* "running", "exited" (exit(1)) or "crashed"
    last                  \* the last call made and what it returned

vars == << yep_file_path, path_freed, yep_file, file_entry_count, file_version_number,
           open_files, yep_pack_list, nodes_freed, disk, packed, pack_calls,
           proc, last >>

\* the globals of the open-archive cache, with the process they live in
CacheState ==
    [yep_file_path |-> yep_file_path, path_freed |-> path_freed, yep_file |-> yep_file,
     file_entry_count |-> file_entry_count, file_version_number |-> file_version_number,
     open_files |-> open_files, proc |-> proc]

\* what the build may do where the code's behaviour is undefined: strcmp on a
\* freed path string, free of an already freed block, a walk over freed list nodes
PathDangling == yep_file_path # NoPath /\ path_freed
NodesDangling == yep_pack_list.head # <<>> /\ nodes_freed

\* the choices open to a call that touches the cache
CacheUB ==
    [cmp : IF PathDangling THEN {"equal", "differ", "crash"} ELSE {"differ"},
     dfree : IF PathDangling THEN {"continue", "crash"} ELSE {"continue"},
     lfree : {"continue"}, stale : {"intact"}]

\* the choices open to a call that touches the pack list
ListUB ==
    [cmp : {"differ"}, dfree : {"continue"},
     lfree : IF NodesDangling THEN {"continue", "crash"} ELSE {"continue"},
     stale : IF NodesDangling THEN {"intact", "crash"} ELSE {"intact"}]

\* the number a header fread leaves in its variable: a failed or short read
\* leaves the variable as it was
ReadNumber(datum, t, old) == IF datum.t = t THEN datum.v[1] ELSE old

\* fopen(file, "rb")
CanOpen(c, file) == disk[file].exists /\ c.open_files < MaxOpenFiles

\* _yep_open_file from fopen on: the path did not compare equal
OpenFresh(c, file, ub) ==
    IF ~CanOpen(c, file)
    THEN [c |-> [c EXCEPT !.yep_file = NoPath], ret |-> FALSE, reads |-> 0, fopened |-> FALSE]
    ELSE LET opened == [c EXCEPT !.yep_file = file, !.open_files = c.open_files + 1]
         IN  IF c.yep_file_path # NoPath /\ c.path_freed /\ ub.dfree = "crash"
             THEN [c |-> [opened EXCEPT !.proc = "crashed"], ret |-> FALSE, reads |-> 0,
                   fopened |-> TRUE]
             ELSE LET version == ReadNumber(ReadAt(disk[file].log, 0, 1), "ver", 0)
                      count == ReadNumber(ReadAt(disk[file].log, 1, 2), "cnt",
                                          c.file_entry_count)
                  IN  [c |-> [opened EXCEPT !.yep_file_path = file, !.path_freed = FALSE,
                                            !.file_version_number = version,
                                            !.file_entry_count = count],
                       ret |-> version = YEP_CURRENT_FORMAT_VERSION,
                       reads |-> 2, fopened |-> TRUE]

\* the paths compared as pointers: a caller's string is never the cached copy
PathCompare_Pointers(c, file, ub) ==
    IF c.yep_file_path # NoPath /\ c.path_freed THEN ub.cmp ELSE "differ"

\* the strcmp of _yep_open_file's first line
PathCompare(c, file, ub) ==
    IF c.yep_file_path = NoPath THEN "differ"
    ELSE IF c.path_freed THEN ub.cmp
    ELSE IF c.yep_file_path = file THEN "equal" ELSE "differ"

\* _yep_open_file: [c, ret, reads, fopened]; reads counts the fread calls made
_yep_open_file(c, file, ub) ==
    LET cmp == PathCompare(c, file, ub) IN
    IF cmp = "crash"
    THEN [c |-> [c EXCEPT !.proc = "crashed"], ret |-> FALSE, reads |-> 0, fopened |-> FALSE]
    ELSE IF cmp = "equal"
    THEN [c |-> c, ret |-> TRUE, reads |-> 0, fopened |-> FALSE]
    ELSE OpenFresh(c, file, ub)

\* _yep_close_file; the path pointer is freed and keeps its value
_yep_close_file(c, ub) ==
    IF c.yep_file # NoPath
    THEN LET closed == [c EXCEPT !.yep_file = NoPath, !.open_files = c.open_files - 1]
         IN  IF c.yep_file_path # NoPath /\ c.path_freed /\ ub.dfree = "crash"
             THEN [closed EXCEPT !.proc = "crashed"]
             ELSE [closed EXCEPT !.path_freed = (c.yep_file_path # NoPath),
                                 !.file_entry_count = 0, !.file_version_number = 0]
    ELSE c

RECURSIVE ScanHeaders_LastMatch(_, _, _, _)
\* the loop without its return at the match: it reads on and the last match stays
ScanHeaders_LastMatch(log, handle, i, entry_count) ==
    IF i >= entry_count THEN [found |-> FALSE, scanned |-> i, fields |-> Garbage]
    ELSE LET name == ReadAt(log, HeaderStart + (i * RecordBytes), NameSlot)
             fields == ReadAt(log, HeaderStart + (i * RecordBytes) + NameSlot, FieldBytes)
             rest == ScanHeaders_LastMatch(log, handle, i + 1, entry_count)
         IN  IF rest.found THEN rest
             ELSE IF name.t = "name" /\ name.s = handle
             THEN [found |-> TRUE, scanned |-> entry_count, fields |-> fields]
             ELSE rest

RECURSIVE ScanHeaders(_, _, _, _)
\* the loop of _yep_seek_header from record i on: [found, scanned, fields]
ScanHeaders(log, handle, i, entry_count) ==
    IF i >= entry_count THEN [found |-> FALSE, scanned |-> i, fields |-> Garbage]
    ELSE LET name == ReadAt(log, HeaderStart + (i * RecordBytes), NameSlot)
             fields == ReadAt(log, HeaderStart + (i * RecordBytes) + NameSlot, FieldBytes)
         IN  IF name.t = "name" /\ name.s = handle
             THEN [found |-> TRUE, scanned |-> i + 1, fields |-> fields]
             ELSE ScanHeaders(log, handle, i + 1, entry_count)

\* _yep_seek_header on the cached file
_yep_seek_header(c, handle) == ScanHeaders(disk[c.yep_file].log, handle, 0, c.file_entry_count)

\* yep_extract_data once the header is found: [data, exited]
ReadEntry(log, fields) ==
    IF fields.t # "fields" THEN [data |-> Garbage, exited |-> FALSE]
    ELSE LET offset == fields.v[1]
             size == fields.v[2]
             compression_type == fields.v[3]
             uncompressed_size == fields.v[4]
             read == ReadAt(log, offset, size)
             data == IF read.t = "eof" THEN Garbage ELSE read
             z == decompress_data(data, size, uncompressed_size)
         IN  IF compression_type = YEP_COMPRESSION_ZLIB
             THEN IF z.ok THEN [data |-> z.data, exited |-> FALSE]
                  ELSE [data |-> NullResult, exited |-> TRUE]
             ELSE [data |-> data, exited |-> FALSE]

Call(op, file, name, ret, data, scanned, reads, fopened) ==
    [op |-> op, file |-> file, name |-> name, ret |-> ret, data |-> data,
     scanned |-> scanned, reads |-> reads, fopened |-> fopened]

\* yep_extract_data: [c, call]
yep_extract_data(c, file, handle, ub) ==
    LET o == _yep_open_file(c, file, ub) IN
    IF o.c.proc # "running" \/ ~o.ret
    THEN [c |-> o.c,
          call |-> Call("extract", file, handle, o.ret, NullResult, 0, o.reads, o.fopened)]
    ELSE IF o.c.yep_file = NoPath
    \* fseek on a NULL FILE
    THEN [c |-> [o.c EXCEPT !.proc = "crashed"],
          call |-> Call("extract", file, handle, TRUE, NullResult, 0, o.reads, o.fopened)]
    ELSE LET h == _yep_seek_header(o.c, handle)
             e == ReadEntry(disk[o.c.yep_file].log, h.fields)
         IN  IF ~h.found
             THEN [c |-> o.c,
                   call |-> Call("extract", file, handle, TRUE, NullResult, h.scanned,
                                 o.reads, o.fopened)]
             ELSE [c |-> [o.c EXCEPT !.proc = IF e.exited THEN "exited" ELSE "running"],
                   call |-> Call("extract", file, handle, TRUE, e.data, h.scanned,
                                 o.reads, o.fopened)]

(***************************************************************************)
(* The calls a process makes.                                              *)
(***************************************************************************)
Handles == {"a.txt", "big.bin", "sub/c.txt", Name63, "nope"}

Packed(dir, pl) == [dir |-> dir, pl |-> pl]
NoCall == Call("none", NoPath, "", FALSE, NoResult, 0, 0, FALSE)

Init ==
    /\ yep_file_path = NoPath
    /\ path_freed = FALSE
    /\ yep_file = NoPath
    /\ file_entry_count = 0
    /\ file_version_number = 0
    /\ open_files = 0
    /\ yep_pack_list = PackList(<<>>, 0)
    /\ nodes_freed = FALSE
    /\ disk = InitDisk
    /\ packed = [p \in ArchivePaths |->
                    IF disk[p].exists
                    THEN Packed("resA", _ye_walk_directory("resA", PackList(<<>>, 0)))
                    ELSE Packed("", PackList(<<>>, 0))]
    /\ pack_calls = 0
    /\ proc = "running"
    /\ last = NoCall

SetCache(c) ==
    /\ yep_file_path' = c.yep_file_path
    /\ path_freed' = c.path_freed
    /\ yep_file' = c.yep_file
    /\ file_entry_count' = c.file_entry_count
    /\ file_version_number' = c.file_version_number
    /\ open_files' = c.open_files
    /\ proc' = c.proc

\* a call of _yep_open_file(file)
Open ==
    /\ proc = "running"
    /\ \E file \in ArchivePaths, ub \in CacheUB :
          \E o \in {_yep_open_file(CacheState, file, ub)} :
              /\ SetCache(o.c)
              /\ last' = Call("open", file, "", o.ret, NoResult, 0, o.reads, o.fopened)
    /\ UNCHANGED << yep_pack_list, nodes_freed, disk, packed, pack_calls >>

\* a call of _yep_close_file()
Close ==
    /\ proc = "running"
    /\ \E ub \in CacheUB :
          SetCache(_yep_close_file(CacheState, ub))
    /\ last' = Call("close", NoPath, "", TRUE, NoResult, 0, 0, FALSE)
    /\ UNCHANGED << yep_pack_list, nodes_freed, disk, packed, pack_calls >>

\* a call of yep_extract_data(file, handle)
Extract ==
    /\ proc = "running"
    /\ \E file \in ArchivePaths, handle \in Handles, ub \in CacheUB :
          \E x \in {yep_extract_data(CacheState, file, handle, ub)} :
              /\ SetCache(x.c)
              /\ last' = x.call
    /\ UNCHANGED << yep_pack_list, nodes_freed, disk, packed, pack_calls >>

\* a call of yep_initialize()
Initialize ==
    /\ proc = "running"
    /\ yep_pack_list' = [yep_pack_list EXCEPT !.entry_count = 0]
    /\ last' = Call("initialize", NoPath, "", TRUE, NoResult, 0, 0, FALSE)
    /\ UNCHANGED << yep_file_path, path_freed, yep_file, file_entry_count,
                    file_version_number, open_files, nodes_freed, disk, packed,
                    pack_calls, proc >>

\* yep_shutdown: _yep_close_file, then the nodes are freed and head keeps its value
yep_shutdown(c, ub) ==
    LET closed == _yep_close_file(c, ub) IN
    IF closed.proc = "running" /\ yep_pack_list.head # <<>> /\ nodes_freed
       /\ ub.lfree = "crash"
    THEN [closed EXCEPT !.proc = "crashed"]
    ELSE closed

\* a call of yep_shutdown()
Shutdown ==
    /\ proc = "running"
    /\ \E ub \in ListUB : SetCache(yep_shutdown(CacheState, ub))
    /\ nodes_freed' = (nodes_freed \/ yep_pack_list.head # <<>>)
    /\ last' = Call("shutdown", NoPath, "", TRUE, NoResult, 0, 0, FALSE)
    /\ UNCHANGED << yep_pack_list, disk, packed, pack_calls >>

\* yep_pack_directory: [pl, file, ret, proc]; file is what output_name holds after
yep_pack_directory(directory_path, output_name, ub) ==
    LET pl == _ye_walk_directory(directory_path, yep_pack_list)
        w == WriteArchive(YEP_CURRENT_FORMAT_VERSION, pl)
    IN  IF yep_pack_list.head # <<>> /\ nodes_freed /\ ub.stale = "crash"
        THEN [pl |-> pl, file |-> disk[output_name], ret |-> FALSE, proc |-> "crashed"]
        ELSE IF open_files >= MaxOpenFiles
        THEN [pl |-> pl, file |-> disk[output_name], ret |-> FALSE, proc |-> "running"]
        ELSE [pl |-> pl, file |-> DiskFile(TRUE, w.log, w.ok), ret |-> w.ok,
              proc |-> IF w.ok THEN "running" ELSE "exited"]

\* a call of yep_pack_directory(directory_path, output_name)
Pack ==
    /\ proc = "running"
    /\ pack_calls < MaxPackCalls
    /\ \E directory_path \in SourceDirs, output_name \in PackOutputs, ub \in ListUB :
          \E r \in {yep_pack_directory(directory_path, output_name, ub)} :
              /\ yep_pack_list' = r.pl
              /\ disk' = [disk EXCEPT ![output_name] = r.file]
              /\ packed' = IF r.file = disk[output_name] THEN packed
                           ELSE [packed EXCEPT ![output_name] = Packed(directory_path, r.pl)]
              /\ proc' = r.proc
              /\ last' = Call("pack", output_name, directory_path, r.ret, NoResult, 0, 0, FALSE)
    /\ pack_calls' = pack_calls + 1
    /\ UNCHANGED << yep_file_path, path_freed, yep_file, file_entry_count,
                    file_version_number, open_files, nodes_freed >>

Next ==
    \/ Open
    \/ Close
    \/ Extract
    \/ Initialize
    \/ Shutdown
    \/ Pack

Spec == Init /\ [][Next]_vars

\* the reader and the cache alone, over the archives on disk at the start
NextReader ==
    \/ Open
    \/ Close
    \/ Extract
    \/ Shutdown

SpecReader == Init /\ [][NextReader]_vars

\* the walker and the writer alone
NextWriter ==
    \/ Pack
    \/ Initialize
    \/ Shutdown

SpecWriter == Init /\ [][NextWriter]_vars

\* the pack list of a process that packed resA and then resB
DupList == _ye_walk_directory("resB", _ye_walk_directory("resA", PackList(<<>>, 0)))

\* a process that starts with a.yep on disk as such an earlier process left it:
\* the archive holds two records named a.txt
InitDup ==
    /\ yep_file_path = NoPath
    /\ path_freed = FALSE
    /\ yep_file = NoPath
    /\ file_entry_count = 0
    /\ file_version_number = 0
    /\ open_files = 0
    /\ yep_pack_list = PackList(<<>>, 0)
    /\ nodes_freed = FALSE
    /\ disk = [InitDisk EXCEPT !["a.yep"] =
                  DiskFile(TRUE, WriteArchive(YEP_CURRENT_FORMAT_VERSION, DupList).log, TRUE)]
    /\ packed = [p \in ArchivePaths |->
                    IF p = "a.yep" THEN Packed("resB", DupList)
                    ELSE IF InitDisk[p].exists
                    THEN Packed("resA", _ye_walk_directory("resA", PackList(<<>>, 0)))
                    ELSE Packed("", PackList(<<>>, 0))]
    /\ pack_calls = 0
    /\ proc = "running"
    /\ last = NoCall

\* the reader over archives one of which has duplicate names
SpecDup == InitDup /\ [][NextReader]_vars

(***************************************************************************)
(* What an archive on disk holds, read the way the reader reads it.        *)
(***************************************************************************)
StoredVersion(p) == ReadNumber(ReadAt(disk[p].log, 0, 1), "ver", 0)
StoredCount(p) == ReadNumber(ReadAt(disk[p].log, 1, 2), "cnt", 0)
\* record i, counted from 0
RecordName(p, i) == ReadAt(disk[p].log, HeaderStart + (i * RecordBytes), NameSlot)
RecordFields(p, i) == ReadAt(disk[p].log, HeaderStart + (i * RecordBytes) + NameSlot, FieldBytes)
RecordOffset(p, i) == RecordFields(p, i).v[1]
RecordSize(p, i) == RecordFields(p, i).v[2]
RecordCompression(p, i) == RecordFields(p, i).v[3]
RecordOriginalSize(p, i) == RecordFields(p, i).v[4]

\* an archive a completed yep_pack_directory of this build left on disk
Written(p) ==
    disk[p].exists /\ disk[p].complete /\ StoredVersion(p) = YEP_CURRENT_FORMAT_VERSION
\* the node record i of a written archive was written from
RecordNode(p, i) == packed[p].pl.head[i + 1]
RecordSource(p, i) == Node(RecordNode(p, i).fullpath)
Records(p) == 0 .. (StoredCount(p) - 1)
\* the files the pack call that wrote p accepted from its own directory
OwnNodes(p) ==
    LET own == _ye_walk_directory(packed[p].dir, PackList(<<>>, 0)).head
    IN  {own[i] : i \in 1..Len(own)}
\* what the payload of a source file is: its bytes, or their deflate stream
StoredData(fullpath) ==
    IF Node(fullpath).size > CompressThreshold THEN ZDatum(fullpath) ELSE FileData(fullpath)

RECURSIVE SizesBefore(_, _)
\* the sum of stored_size over records 0 .. i-1
SizesBefore(p, i) == IF i = 0 THEN 0 ELSE SizesBefore(p, i - 1) + RecordSize(p, i - 1)

CacheVars == << yep_file_path, path_freed, yep_file, file_entry_count, file_version_number,
                open_files >>

(***************************************************************************)
(* C1.  Round trip: yep_extract_data on an archive written by              *)
(* yep_pack_directory, with the relative name of a file the pack call      *)
(* accepted, returns the bytes of that source file, stored raw or          *)
(* deflated.                                                               *)
(***************************************************************************)
C1_RoundTrip ==
    (last.op = "extract" /\ Written(last.file))
        => \A n \in OwnNodes(last.file) :
              n.name = last.name
                 => (proc = "running" /\ last.data = FileData(n.fullpath))

(***************************************************************************)
(* C2.  An open that fails on the version leaves nothing behind: the       *)
(* cache holds neither the path nor a handle of that archive.              *)
(***************************************************************************)
C2_NoPartialState ==
    (last.op = "open" /\ proc = "running" /\ disk[last.file].exists
     /\ StoredVersion(last.file) # YEP_CURRENT_FORMAT_VERSION)
        => (yep_file_path # last.file /\ yep_file # last.file)

(***************************************************************************)
(* C3.  Version gate: an open of an archive of another format version      *)
(* fails, and reads nothing after the version byte.                        *)
(***************************************************************************)
C3_VersionGate ==
    (last.op = "open" /\ proc = "running" /\ disk[last.file].exists
     /\ StoredVersion(last.file) # YEP_CURRENT_FORMAT_VERSION)
        => (~last.ret /\ last.reads <= 1)

(***************************************************************************)
(* C4.  At most one archive handle is open, and an open handle is the one  *)
(* the cache refers to.                                                    *)
(***************************************************************************)
C4_SingleHandle ==
    open_files = (IF yep_file # NoPath THEN 1 ELSE 0)

(***************************************************************************)
(* C5.  open is idempotent on the same path: when the last call opened     *)
(* path P with success and no teardown has freed the cached path string    *)
(* since, an open of P returns true, calls neither fopen nor fread and     *)
(* leaves the cached path, handle, format_version and entry_count as they  *)
(* were.                                                                   *)
(***************************************************************************)
C5_OpenIdempotent ==
    [][ ( /\ last.op \in {"open", "extract"}
          /\ last.ret
          /\ ~path_freed
          /\ last'.op = "open"
          /\ last'.file = last.file )
        => ( /\ last'.ret
             /\ ~last'.fopened
             /\ last'.reads = 0
             /\ proc' = "running"
             /\ UNCHANGED CacheVars ) ]_vars

C5_Witness ==
    /\ last.op = "open"
    /\ last.ret
    /\ ~last.fopened
    /\ yep_file_path = last.file
    /\ yep_file = last.file
    /\ ~path_freed
    /\ file_version_number = YEP_CURRENT_FORMAT_VERSION

(***************************************************************************)
(* C6.  Teardown leaves no archive open: after _yep_close_file or          *)
(* yep_shutdown the cache holds no handle and no path.                     *)
(***************************************************************************)
C6_Teardown ==
    (last.op \in {"close", "shutdown"} /\ proc = "running")
        => (yep_file = NoPath /\ yep_file_path = NoPath /\ open_files = 0)

(***************************************************************************)
(* C7.  Not found: an extract of a name no record of the archive carries   *)
(* returns null after entry_count records were scanned, and the process    *)
(* runs on.                                                                *)
(***************************************************************************)
C7_NotFound ==
    (/\ last.op = "extract"
     /\ Written(last.file)
     /\ \A i \in Records(last.file) : RecordName(last.file, i) # NameDatum(last.name))
        => (/\ proc = "running"
            /\ last.data = NullResult
            /\ last.scanned = StoredCount(last.file))

(***************************************************************************)
(* C8.  Threshold: in a written archive a record of a source file of at    *)
(* most 256 bytes has compression NONE and stored_size the raw size; a     *)
(* record of a larger file has compression DEFLATE and original_size the   *)
(* raw size.                                                               *)
(***************************************************************************)
C8_Threshold ==
    \A p \in ArchivePaths :
        Written(p) =>
            \A i \in Records(p) :
                /\ RecordFields(p, i).t = "fields"
                /\ IF RecordSource(p, i).size <= 256
                   THEN /\ RecordCompression(p, i) = YEP_COMPRESSION_NONE
                        /\ RecordSize(p, i) = RecordSource(p, i).size
                   ELSE /\ RecordCompression(p, i) = YEP_COMPRESSION_ZLIB
                        /\ RecordOriginalSize(p, i) = RecordSource(p, i).size

C8_Witness ==
    /\ last.op = "pack"
    /\ last.ret
    /\ Written(last.file)
    /\ \E i, j \in Records(last.file) :
          /\ RecordSource(last.file, i).size = 256
          /\ RecordCompression(last.file, i) = YEP_COMPRESSION_NONE
          /\ RecordSource(last.file, j).size > 256
          /\ RecordCompression(last.file, j) = YEP_COMPRESSION_ZLIB
          /\ RecordSize(last.file, j) < RecordOriginalSize(last.file, j)

(***************************************************************************)
(* C9.  Bounds: in a written archive offset + stored_size of every record  *)
(* is at most the size of the archive file.                                *)
(***************************************************************************)
C9_Bounds ==
    \A p \in ArchivePaths :
        Written(p) =>
            \A i \in Records(p) :
                /\ RecordFields(p, i).t = "fields"
                /\ RecordOffset(p, i) + RecordSize(p, i) <= FileSize(disk[p].log)

C9_Witness ==
    /\ last.op = "pack"
    /\ last.ret
    /\ Written(last.file)
    /\ StoredCount(last.file) >= 3
    /\ \E i \in Records(last.file) :
          /\ RecordSize(last.file, i) > 0
          /\ RecordOffset(last.file, i) + RecordSize(last.file, i) = FileSize(disk[last.file].log)

(***************************************************************************)
(* C10.  Layout: in a written archive record i's offset is                 *)
(* 3 + entry_count * 78 plus the stored sizes of the records before it,    *)
(* and the payload at that offset is the one of the file record i names.   *)
(***************************************************************************)
C10_Layout ==
    \A p \in ArchivePaths :
        Written(p) =>
            \A i \in Records(p) :
                /\ RecordFields(p, i).t = "fields"
                /\ RecordName(p, i) = NameDatum(RecordNode(p, i).name)
                /\ RecordOffset(p, i)
                      = HeaderStart + (StoredCount(p) * RecordBytes) + SizesBefore(p, i)
                /\ ReadAt(disk[p].log, RecordOffset(p, i), RecordSize(p, i))
                      = StoredData(RecordNode(p, i).fullpath)

(***************************************************************************)
(* C11.  Name length: a regular file whose relative path with its          *)
(* terminator takes more than 64 bytes is never in the pack list and has   *)
(* no record in the archive a pack call of its directory returns; every    *)
(* other regular file of that directory has a record there, the files      *)
(* the walk meets after the rejected one included; and every name in the   *)
(* pack list fits the 64-byte slot with its terminator.                    *)
(***************************************************************************)
RECURSIVE RegularFiles(_, _)
\* the regular files below directory_path, each with its path relative to the root
RegularFiles(directory_path, rel_dir) ==
    LET ents == Node(directory_path).ents
        names == {ents[i] : i \in 1..Len(ents)} \ {".", ".."}
        below(d_name) ==
            LET full_path == JoinPath(directory_path, d_name)
                relative_path == IF rel_dir = "" THEN d_name ELSE rel_dir \o "/" \o d_name
            IN  IF ~Exists(full_path) THEN {}
                ELSE IF Node(full_path).kind = "reg"
                THEN {HeaderNode(relative_path, full_path)}
                ELSE IF Node(full_path).kind = "dir"
                THEN RegularFiles(full_path, relative_path)
                ELSE {}
    IN  UNION {below(d_name) : d_name \in names}

FitsSlot(name) == Len(name) + 1 <= 64

ListNodes == {yep_pack_list.head[i] : i \in 1..Len(yep_pack_list.head)}

C11_NameLength ==
    /\ \A n \in ListNodes : FitsSlot(n.name)
    /\ \A d \in SourceDirs :
          \A f \in RegularFiles(d, "") :
              ~FitsSlot(f.name) => \A n \in ListNodes : n.fullpath # f.fullpath
    /\ (last.op = "pack" /\ last.ret)
          => \A f \in RegularFiles(last.name, "") :
                IF FitsSlot(f.name)
                THEN \E i \in Records(last.file) :
                        /\ RecordName(last.file, i) = NameDatum(f.name)
                        /\ RecordNode(last.file, i) = f
                ELSE \A i \in Records(last.file) :
                        RecordName(last.file, i) # NameDatum(f.name)

\* a pack of resB returned: the 64-character name was rejected, and the
\* 63-character name the walk met after it has its record
C11_Witness ==
    /\ last.op = "pack"
    /\ last.ret
    /\ last.name = "resB"
    /\ HeaderNode(Name64, JoinPath("resB", Name64)) \in RegularFiles("resB", "")
    /\ \A n \in ListNodes : n.name # Name64
    /\ \E i, j \in Records(last.file) :
          /\ RecordName(last.file, i) = NameDatum(Name63)
          /\ RecordName(last.file, j) = NameDatum("a.txt")
          /\ RecordNode(last.file, j).fullpath = "resB/a.txt"

(***************************************************************************)
(* C12.  Explicit results: a pack, open or extract call that fails         *)
(* returns its failure to the caller; none of them ends the process with   *)
(* exit, be it on a source file that cannot be read or on a codec          *)
(* failure.                                                                *)
(***************************************************************************)
C12_ExplicitResult ==
    last.op \in {"pack", "open", "extract"} => proc # "exited"

(***************************************************************************)
(* C13.  First match wins: when an extract returns bytes, the record it    *)
(* took them from is the lowest-index record whose name equals the         *)
(* requested name, also when a later record carries the same name; the     *)
(* scan read the records up to that one and none after it; and the bytes   *)
(* are the payload stored for that record, inflated when it is deflated.   *)
(***************************************************************************)
\* the bytes at record i's offset, as fread leaves them in the buffer
StoredBytes(p, i) ==
    LET read == ReadAt(disk[p].log, RecordOffset(p, i), RecordSize(p, i))
    IN  IF read.t = "eof" THEN Garbage ELSE read

Inflated(data) == IF data.t = "z" THEN RawDatum(data.s) ELSE data

Matches(p, i, handle) == RecordName(p, i) = NameDatum(handle)

C13_FirstMatch ==
    (last.op = "extract" /\ proc = "running" /\ last.data # NullResult)
        => /\ last.scanned >= 1
           /\ Matches(last.file, last.scanned - 1, last.name)
           /\ \A i \in 0 .. (last.scanned - 2) : ~Matches(last.file, i, last.name)
           /\ RecordFields(last.file, last.scanned - 1).t = "fields"
                 => last.data = Inflated(StoredBytes(last.file, last.scanned - 1))

\* an extract of a.txt from the archive with two records of that name: the
\* bytes are those of record 1 (resB/a.txt), record 4 (resA/a.txt) was not read
C13_Witness ==
    /\ last.op = "extract"
    /\ proc = "running"
    /\ last.name = "a.txt"
    /\ Cardinality({i \in Records(last.file) : Matches(last.file, i, "a.txt")}) = 2
    /\ last.scanned < StoredCount(last.file)
    /\ \E i, j \in Records(last.file) :
          /\ i < j
          /\ Matches(last.file, i, "a.txt")
          /\ Matches(last.file, j, "a.txt")
          /\ last.data = FileData(RecordNode(last.file, i).fullpath)
          /\ last.data # FileData(RecordNode(last.file, j).fullpath)

(***************************************************************************)
(* C14.  Cache validity: whenever _yep_open_file returns true, called      *)
(* directly or by yep_extract_data, the cached handle is not NULL and is   *)
(* open on the requested path, the cached path is the requested path and   *)
(* a live string, and the cached format version is the supported one.      *)
(***************************************************************************)
C14_CacheValid ==
    (last.op \in {"open", "extract"} /\ last.ret)
        => /\ yep_file # NoPath
           /\ yep_file = last.file
           /\ yep_file_path = last.file
           /\ ~path_freed
           /\ file_version_number = YEP_CURRENT_FORMAT_VERSION

(***************************************************************************)
(* C15.  The pack list belongs to one pack call: the archive a pack call   *)
(* returns holds, in entry_count and in its records, exactly the regular   *)
(* files with fitting names of that call's own directory; nothing of an    *)
(* earlier pack call is carried over.                                      *)
(***************************************************************************)
C15_OwnEntries ==
    (last.op = "pack" /\ last.ret)
        => LET own == {f \in RegularFiles(last.name, "") : FitsSlot(f.name)}
               wrote == packed[last.file].pl.head
           IN  /\ StoredCount(last.file) = Cardinality(own)
               /\ Len(wrote) = Cardinality(own)
               /\ \A i \in 1 .. Len(wrote) : wrote[i] \in own

====
